---- MODULE Spec2Model ----
(***************************************************************************)
(* Model of the cpp_to_rust generator core: the declaration ledger         *)
(* (Database::add_cpp_data, CppItemData::is_same), the per-environment     *)
(* check list (CppCheckerInfoList::add), the FFI type mapper               *)
(* (CppType::to_cpp_ffi_type), the texts of types (to_cpp_code, caption),  *)
(* the names of FFI functions (c_base_name and the captions of signatures  *)
(* and methods), the registration of environments in process and the      *)
(* checking phase that records finished checks in any order.               *)
(***************************************************************************)
EXTENDS Integers, Sequences, FiniteSets, TLC

VARIABLES
    items,         \* Database.items: Vec<DatabaseItem>
    environments,  \* Database.environments: Vec<CppCheckerEnv>
    next_ffi_id,   \* Database.next_ffi_id
    op,            \* name of the operation that ran last ("init" before any)
    argSource,     \* add_cpp_data: the `source` argument of the last call
    argData,       \* add_cpp_data: the `data` argument of the last call
    ret,           \* add_cpp_data: the value the last call returned
    checks,        \* CppCheckerInfoList.items: Vec<CppCheckerInfo>
    argEnv,        \* CppCheckerInfoList::add: the `env` argument of the last call
    argError,      \* CppCheckerInfoList::add: the `error` argument of the last call
    addResult,     \* CppCheckerInfoList::add: the CppCheckerAddResult returned
    mapType,       \* to_cpp_ffi_type: `self`
    mapPos,        \* to_cpp_ffi_type: `is_return_type`
    mapResult,     \* to_cpp_ffi_type: the outcome, Pending before the call
    textType,      \* to_cpp_code, caption: `self`
    textStrategy,  \* caption: the TypeCaptionStrategy
    textResult,    \* to_cpp_code, caption: the outcome, Pending before the call
    nameMethod,    \* c_base_name: `cpp_method`
    namePlace,     \* c_base_name: `allocation_place`
    nameInclude,   \* c_base_name: `include_file`, as pieces
    nameResult,    \* c_base_name: the outcome, Pending before the call
    sigArguments,  \* CppFfiFunctionSignature::caption: `self.arguments`
    sigStrategy,   \* CppFfiFunctionSignature::caption: `strategy`
    sigResult,     \* CppFfiFunctionSignature::caption: the outcome
    capMethods,    \* CppMethodWithFfiSignature::caption: the overloads captioned
    capStrategy,   \* CppMethodWithFfiSignature::caption: `strategy`
    capResults,    \* CppMethodWithFfiSignature::caption: the outcomes so far
    savedEnvironments, \* process: `environments` of the crate as the workspace holds it
    procStatus,    \* process: "none" before the first call, "running", or how it ended
    procTarget,    \* process: current_target()
    procVersion,   \* process: config.cpp_lib_version()
    procEnv,       \* process: `data.env` of the last parser or checker operation
    phaseStart,    \* checking phase: FfiItem.checks of every item when the phase began
    phaseLists,    \* checking phase: FfiItem.checks of every item now
    phasePending,  \* checking phase: finished checks whose result is not yet recorded
    phaseResults,  \* checking phase: the recorded checks with the CppCheckerAddResult of each
    sameSelf,      \* is_same: `self`
    sameOther,     \* is_same: `other`
    sameResult     \* is_same: the values returned for the pair, None before the calls

vars == <<items, environments, next_ffi_id, op, argSource, argData, ret,
          checks, argEnv, argError, addResult, mapType, mapPos, mapResult,
          textType, textStrategy, textResult,
          nameMethod, namePlace, nameInclude, nameResult,
          sigArguments, sigStrategy, sigResult,
          capMethods, capStrategy, capResults,
          savedEnvironments, procStatus, procTarget, procVersion, procEnv,
          phaseStart, phaseLists, phasePending, phaseResults,
          sameSelf, sameOther, sameResult>>

dbVars == <<items, environments, next_ffi_id, argSource, argData, ret>>
checkVars == <<checks, argEnv, argError, addResult>>
mapVars == <<mapType, mapPos, mapResult>>
textVars == <<textType, textStrategy, textResult>>
nameVars == <<nameMethod, namePlace, nameInclude, nameResult>>
sigVars == <<sigArguments, sigStrategy, sigResult>>
capVars == <<capMethods, capStrategy, capResults>>
procVars == <<savedEnvironments, procStatus, procTarget, procVersion, procEnv>>
phaseVars == <<phaseStart, phaseLists, phasePending, phaseResults>>
sameVars == <<sameSelf, sameOther, sameResult>>
pureVars == <<textVars, nameVars, sigVars, capVars>>

\* Option<T>: None is the empty sequence, Some(x) the one-element sequence.
None == <<>>
Some(x) == <<x>>

\* The outcome of a call that has not been made yet.
Pending == [kind |-> "Pending"]

\* CppType::void()
CppType_void ==
    [is_const |-> FALSE, indirection |-> "None", base |-> [kind |-> "Void"]]

\* The type mapper at rest, in the specifications that do not call it.
MapIdle == mapType = CppType_void /\ mapPos = FALSE /\ mapResult = Pending

\* The text functions at rest, in the specifications that do not call them.
TextIdle ==
    textType = CppType_void /\ textStrategy = "Full" /\ textResult = Pending

\* c_base_name at rest, in the specifications that do not call it.
NameIdle ==
    /\ nameMethod = [name |-> <<"f">>, class_membership |-> None, operator |-> None]
    /\ namePlace = "NotApplicable"
    /\ nameInclude = <<"f">>
    /\ nameResult = Pending

\* CppFfiFunctionSignature::caption at rest.
SigIdle ==
    /\ sigArguments = <<>>
    /\ sigStrategy = [kind |-> "NameOnly"]
    /\ sigResult = Pending

\* No call of process so far.
ProcIdle ==
    /\ savedEnvironments = <<>>
    /\ procStatus = "none"
    /\ procTarget = None
    /\ procVersion = None
    /\ procEnv = None

\* No checking phase.
PhaseIdle ==
    /\ phaseStart = <<>>
    /\ phaseLists = <<>>
    /\ phasePending = {}
    /\ phaseResults = {}

\* No call of is_same on its own.
SameIdle ==
    /\ sameSelf = None
    /\ sameOther = None
    /\ sameResult = None

\* CppMethodWithFfiSignature::caption at rest.
CapIdle ==
    /\ capMethods = <<>>
    /\ capStrategy = [kind |-> "ConstOnly"]
    /\ capResults = <<>>

\* Every function of cpp_type.rs and cpp_ffi_data.rs checked on its own at rest.
PureIdle == TextIdle /\ NameIdle /\ SigIdle /\ CapIdle

(***************************************************************************)
(* Bounds                                                                  *)
(***************************************************************************)
\* Largest number of items the ledger is let grow to.
MaxItems == 2

(***************************************************************************)
(* database.rs: provenance and declarations                                *)
(***************************************************************************)

\* DatabaseItemSource values fed to the ledger: two parser provenances that
\* differ in include file, and two of the synthesized ones.
Sources ==
    { [kind |-> "CppParser", include_file |-> "a.h"],
      [kind |-> "CppParser", include_file |-> "b.h"],
      [kind |-> "ImplicitDestructor", include_file |-> ""],
      [kind |-> "NamespaceInfering", include_file |-> ""] }

is_parser(source) == source.kind = "CppParser"

\* The eight CppItemData variants.
Variants ==
    { "Namespace", "Type", "EnumValue", "Function", "ClassField",
      "ClassBase", "TemplateInstantiation", "QtSignalArguments" }

\* A declaration: its variant, its structural signature `sig` (name, types,
\* class membership ...) and `doc`, the data that is not part of the
\* signature (documentation, declaration text).
Decl(variant, sig, doc) == [variant |-> variant, sig |-> sig, doc |-> doc]

Decls ==
    { Decl("Namespace", "a", ""),
      Decl("Type", "a", ""),
      Decl("EnumValue", "a", ""),
      Decl("Function", "a", ""), Decl("Function", "a", "doc"),
      Decl("Function", "b", ""),
      Decl("ClassField", "a", ""),
      Decl("ClassBase", "a", ""),
      Decl("TemplateInstantiation", "a", ""),
      Decl("QtSignalArguments", "a", "") }

\* The per-variant identity predicates is_same delegates to.
CppTypeData_is_same(v, v2) == v.sig = v2.sig
CppEnumValue_is_same(v, v2) == v.sig = v2.sig
CppFunction_is_same(v, v2) == v.sig = v2.sig
CppClassField_is_same(v, v2) == v.sig = v2.sig

\* CppItemData::is_same: a match on the pair of variants; every pair that
\* has no arm of its own, a pair of Namespaces included, falls to `_ => false`.
is_same(self, other) ==
    CASE self.variant = "Type" /\ other.variant = "Type" ->
            CppTypeData_is_same(self, other)
      [] self.variant = "EnumValue" /\ other.variant = "EnumValue" ->
            CppEnumValue_is_same(self, other)
      [] self.variant = "Function" /\ other.variant = "Function" ->
            CppFunction_is_same(self, other)
      [] self.variant = "ClassField" /\ other.variant = "ClassField" ->
            CppClassField_is_same(self, other)
      [] self.variant = "ClassBase" /\ other.variant = "ClassBase" ->
            self = other
      [] self.variant = "TemplateInstantiation"
            /\ other.variant = "TemplateInstantiation" ->
            self = other
      [] self.variant = "QtSignalArguments"
            /\ other.variant = "QtSignalArguments" ->
            self = other
      [] OTHER -> FALSE

\* DatabaseItem as add_cpp_data constructs it.
DatabaseItem(data, source) ==
    [cpp_data |-> data, source |-> source, ffi_items |-> None, rust_item |-> None]

\* iter_mut().find(..): index of the first item the predicate holds for, 0 if none.
FindSame(its, data) ==
    LET hits == { i \in 1..Len(its) : is_same(its[i].cpp_data, data) }
    IN IF hits = {} THEN 0 ELSE CHOOSE i \in hits : \A j \in hits : i <= j

\* add_cpp_data overwriting the whole matched item on a provenance upgrade.
add_cpp_data_replaceItem(its, source, data) ==
    LET i == FindSame(its, data)
    IN IF i # 0
       THEN [ items |->
                IF is_parser(source) /\ ~is_parser(its[i].source)
                THEN [its EXCEPT ![i] = DatabaseItem(data, source)]
                ELSE its,
              is_new |-> FALSE ]
       ELSE [ items |-> Append(its, DatabaseItem(data, source)),
              is_new |-> TRUE ]

\* Database::add_cpp_data as a function of the item list: the new list and
\* the returned bool.
add_cpp_data(its, source, data) ==
    LET i == FindSame(its, data)
    IN IF i # 0
       THEN [ items |->
                IF is_parser(source) /\ ~is_parser(its[i].source)
                THEN [its EXCEPT ![i].source = source]
                ELSE its,
              is_new |-> FALSE ]
       ELSE [ items |-> Append(its, DatabaseItem(data, source)),
              is_new |-> TRUE ]

\* Database::empty
DbInit ==
    /\ items = <<>>
    /\ environments = <<>>
    /\ next_ffi_id = 0
    /\ argSource = None
    /\ argData = None
    /\ ret = FALSE

\* One call of add_cpp_data(source, data).
AddCppData(source, data) ==
    LET r == add_cpp_data(items, source, data)
    IN /\ Len(r.items) <= MaxItems
       /\ items' = r.items
       /\ ret' = r.is_new
       /\ argSource' = Some(source)
       /\ argData' = Some(data)
       /\ op' = "add_cpp_data"
       /\ UNCHANGED <<environments, next_ffi_id>>
       /\ UNCHANGED <<sameVars, phaseVars, procVars, checkVars, mapVars, pureVars>>

\* Database::clear
Clear ==
    /\ items' = <<>>
    /\ environments' = <<>>
    /\ next_ffi_id' = 0
    /\ op' = "clear"
    /\ UNCHANGED <<argSource, argData, ret>>
    /\ UNCHANGED <<sameVars, phaseVars, procVars, checkVars, mapVars, pureVars>>

SpecDbInit ==
    /\ DbInit
    /\ op = "init"
    /\ ProcIdle
    /\ PhaseIdle
    /\ SameIdle
    /\ checks = <<>> /\ argEnv = None /\ argError = None /\ addResult = None
    /\ MapIdle
    /\ PureIdle

SpecDbNext ==
    \/ \E source \in Sources, data \in Decls : AddCppData(source, data)
    \/ Clear

\* The ledger under merges (and clear).
SpecDb == SpecDbInit /\ [][SpecDbNext]_vars

(***************************************************************************)
(* database.rs: CppCheckerInfoList                                         *)
(***************************************************************************)

\* common::target::Target values
Targets ==
    { [arch |-> "x86_64", os |-> "linux", family |-> "unix", env |-> "gnu"],
      [arch |-> "x86_64", os |-> "windows", family |-> "windows", env |-> "msvc"] }

\* CppCheckerEnv: derived PartialEq, i.e. equality of both fields.
Envs == [target : Targets, cpp_library_version : {None, Some("5.9")}]

\* Option<String> error values
Errors == {None, Some("boom"), Some("bang")}

\* CppCheckerInfo
CppCheckerInfo(env, error) == [env |-> env, error |-> error]

\* FindEnv comparing the target only, as if library versions were not part
\* of an environment's identity.
FindEnv_targetOnly(list, env) ==
    LET hits == { i \in 1..Len(list) : list[i].env.target = env.target }
    IN IF hits = {} THEN 0 ELSE CHOOSE i \in hits : \A j \in hits : i <= j

\* iter_mut().find(|i| &i.env == env): index of the first entry, 0 if none.
FindEnv(list, env) ==
    LET hits == { i \in 1..Len(list) : list[i].env = env }
    IN IF hits = {} THEN 0 ELSE CHOOSE i \in hits : \A j \in hits : i <= j

\* CppCheckerAddResult
Added == [kind |-> "Added", old |-> None]
Changed(old) == [kind |-> "Changed", old |-> old]
Unchanged == [kind |-> "Unchanged", old |-> None]

\* CppCheckerInfoList::add keeping no other entry when it pushes a new one.
CppCheckerInfoList_add_dropOthers(list, env, error) ==
    LET i == FindEnv(list, env)
    IN IF i # 0
       THEN [ items |-> [list EXCEPT ![i].error = error],
              result |-> IF list[i].error = error
                         THEN Unchanged
                         ELSE Changed(list[i].error) ]
       ELSE [ items |-> <<CppCheckerInfo(env, error)>>,
              result |-> Added ]

\* CppCheckerInfoList::add storing the new error before it compares, so that
\* an existing entry always looks unchanged.
CppCheckerInfoList_add_storeFirst(list, env, error) ==
    LET i == FindEnv(list, env)
    IN IF i # 0
       THEN [ items |-> [list EXCEPT ![i].error = error],
              result |-> Unchanged ]
       ELSE [ items |-> Append(list, CppCheckerInfo(env, error)),
              result |-> Added ]

\* CppCheckerInfoList::add as a function of the list: the new list and the
\* returned classification.
CppCheckerInfoList_add(list, env, error) ==
    LET i == FindEnv(list, env)
    IN IF i # 0
       THEN [ items |-> [list EXCEPT ![i].error = error],
              result |-> IF list[i].error = error
                         THEN Unchanged
                         ELSE Changed(list[i].error) ]
       ELSE [ items |-> Append(list, CppCheckerInfo(env, error)),
              result |-> Added ]

\* One call of CppCheckerInfoList::add(env, error).
CheckerAdd(env, error) ==
    LET r == CppCheckerInfoList_add(checks, env, error)
    IN /\ checks' = r.items
       /\ addResult' = Some(r.result)
       /\ argEnv' = Some(env)
       /\ argError' = Some(error)
       /\ op' = "add"
       /\ UNCHANGED <<sameVars, phaseVars, procVars, dbVars, mapVars, pureVars>>

SpecCheckerInit ==
    /\ DbInit
    /\ op = "init"
    /\ ProcIdle
    /\ PhaseIdle
    /\ SameIdle
    /\ checks = <<>> /\ argEnv = None /\ argError = None /\ addResult = None
    /\ MapIdle
    /\ PureIdle

SpecCheckerNext == \E env \in Envs, error \in Errors : CheckerAdd(env, error)

\* One CppCheckerInfoList (CppCheckerInfoList::default()) under add calls.
SpecChecker == SpecCheckerInit /\ [][SpecCheckerNext]_vars

(***************************************************************************)
(* cpp_type.rs: types and to_cpp_ffi_type                                  *)
(***************************************************************************)

\* Largest number of arguments of a function pointer type.
MaxFnArgs == 1

\* CppTypeIndirection
Indirections == {"None", "Ptr", "Ref", "PtrRef", "PtrPtr", "RValueRef"}

\* CppType
CppType(is_const, indirection, base) ==
    [is_const |-> is_const, indirection |-> indirection, base |-> base]

\* A name is the sequence of the pieces of its text, scope separators "::" and
\* spaces being pieces of their own: Qt::Key is <<"Qt", "::", "Key">>.
\* CppTypeBase variants
Void == [kind |-> "Void"]
BuiltInNumeric(t) == [kind |-> "BuiltInNumeric", numeric |-> t]
Enum(name) == [kind |-> "Enum", name |-> name]
SpecificNumeric(name) == [kind |-> "SpecificNumeric", name |-> name]
PointerSizedInteger(name) == [kind |-> "PointerSizedInteger", name |-> name]
Class(name, template_arguments) ==
    [kind |-> "Class", name |-> name, template_arguments |-> template_arguments]
TemplateParameter == [kind |-> "TemplateParameter"]
FunctionPointer(return_type, arguments, allows_variable_arguments) ==
    [kind |-> "FunctionPointer", return_type |-> return_type,
     arguments |-> arguments,
     allows_variable_arguments |-> allows_variable_arguments]

\* Bases that hold no function pointer.
PlainBases ==
    { Void, BuiltInNumeric("Int"), BuiltInNumeric("UInt"), Enum(<<"Qt", "::", "Key">>),
      SpecificNumeric(<<"qint32">>), PointerSizedInteger(<<"size_t">>),
      Class(<<"Rect">>, None),
      Class(<<"QList">>, Some(<<CppType(FALSE, "None", BuiltInNumeric("Int"))>>)),
      Class(<<"QFlags">>, Some(<<CppType(FALSE, "None", Enum(<<"Qt", "::", "Key">>))>>)),
      TemplateParameter }

\* Types used as the return type and the arguments of function pointers.
FnInnerTypes ==
    { CppType(FALSE, "None", Void),
      CppType(FALSE, "None", BuiltInNumeric("Int")),
      CppType(TRUE, "Ptr", BuiltInNumeric("Int")),
      CppType(FALSE, "Ref", BuiltInNumeric("Int")),
      CppType(FALSE, "None", Class(<<"Rect">>, None)),
      CppType(TRUE, "Ptr", Class(<<"Rect">>, None)),
      CppType(FALSE, "None", TemplateParameter),
      CppType(FALSE, "None",
              FunctionPointer(CppType(FALSE, "None", Void), <<>>, FALSE)) }

SeqsUpTo(S, n) == UNION { [1..k -> S] : k \in 0..n }

FunctionPointerBases ==
    { FunctionPointer(r, a, v) :
        r \in FnInnerTypes, a \in SeqsUpTo(FnInnerTypes, MaxFnArgs), v \in BOOLEAN }

\* The types the mapper is applied to.
Types ==
    { CppType(c, i, b) :
        c \in BOOLEAN, i \in Indirections, b \in PlainBases \cup FunctionPointerBases }

\* Outcomes of to_cpp_ffi_type: Ok(CppFfiType), Err(String), or a panic.
Ok(ffi_type, conversion, original_type) ==
    [kind |-> "Ok", ffi_type |-> ffi_type, conversion |-> conversion,
     original_type |-> original_type]
Err(msg) == [kind |-> "Err", msg |-> msg]
Panic(msg) == [kind |-> "Panic", msg |-> msg]

\* The checks the FunctionPointer arm makes on one argument or return type:
\* None if it passes, Some(message) of the first check that rejects it.
FnPtrArgError(arg) ==
    IF arg.base.kind = "TemplateParameter"
    THEN Some("Function pointers containing template parameters are not supported")
    ELSE IF arg.base.kind = "FunctionPointer"
    THEN Some("Function pointers containing nested function pointers are not supported")
    ELSE IF arg.indirection \in {"Ref", "PtrRef", "RValueRef"}
    THEN Some("Function pointers containing references are not supported")
    ELSE IF arg.indirection = "None" /\ arg.base.kind = "Class"
    THEN Some("Function pointers containing classes by value are not supported")
    ELSE None

\* FnPtrToFfi checking the arguments but not the return type.
FnPtrToFfi_argsOnly(self) ==
    IF self.base.allows_variable_arguments
    THEN Err("Function pointers with variadic arguments are not supported")
    ELSE LET all_types == self.base.arguments
             bad == { k \in 1..Len(all_types) : FnPtrArgError(all_types[k]) # None }
         IN IF bad # {}
            THEN Err(FnPtrArgError(all_types[CHOOSE k \in bad : \A j \in bad : k <= j])[1])
            ELSE Ok(self, "NoChange", self)

\* The FunctionPointer arm of the first match of to_cpp_ffi_type.
FnPtrToFfi(self) ==
    IF self.base.allows_variable_arguments
    THEN Err("Function pointers with variadic arguments are not supported")
    ELSE LET all_types == Append(self.base.arguments, self.base.return_type)
             bad == { k \in 1..Len(all_types) : FnPtrArgError(all_types[k]) # None }
         IN IF bad # {}
            THEN Err(FnPtrArgError(all_types[CHOOSE k \in bad : \A j \in bad : k <= j])[1])
            ELSE Ok(self, "NoChange", self)

\* IndirectionStep taking a reference to a pointer for a pointer to a
\* pointer instead of rejecting it.
IndirectionStep_ptrRefAsPtrPtr(self) ==
    CASE self.indirection \in {"None", "Ptr", "PtrPtr"} ->
            [kind |-> "Ok", result |-> self, conversion |-> "NoChange"]
      [] self.indirection = "Ref" ->
            [kind |-> "Ok", result |-> [self EXCEPT !.indirection = "Ptr"],
             conversion |-> "ReferenceToPointer"]
      [] self.indirection = "PtrRef" ->
            [kind |-> "Ok", result |-> [self EXCEPT !.indirection = "PtrPtr"],
             conversion |-> "ReferenceToPointer"]
      [] OTHER -> Err("Unsupported level of indirection")

\* The match on self.indirection: the result type and conversion so far,
\* or the error it returns.
IndirectionStep(self) ==
    CASE self.indirection \in {"None", "Ptr", "PtrPtr"} ->
            [kind |-> "Ok", result |-> self, conversion |-> "NoChange"]
      [] self.indirection = "Ref" ->
            [kind |-> "Ok", result |-> [self EXCEPT !.indirection = "Ptr"],
             conversion |-> "ReferenceToPointer"]
      [] OTHER -> Err("Unsupported level of indirection")

\* ClassStep keeping the constness of the source type on the pointer it
\* makes of a by-value class.
ClassStep_keepConst(self, is_return_type, result, conversion) ==
    IF self.base.kind = "Class"
    THEN IF self.base.name = <<"QFlags">>
         THEN IF self.indirection # "None"
              THEN Panic("assertion failed: self.indirection == CppTypeIndirection::None")
              ELSE Ok([result EXCEPT !.base = BuiltInNumeric("UInt")],
                      "QFlagsToUInt", self)
         ELSE IF self.indirection = "None"
              THEN Ok([result EXCEPT !.indirection = "Ptr"], "ValueToPointer", self)
              ELSE Ok(result, conversion, self)
    ELSE Ok(result, conversion, self)

\* ClassStep without the QFlags arm: a flags class is treated as any class.
ClassStep_noFlags(self, is_return_type, result, conversion) ==
    IF self.base.kind = "Class"
    THEN IF self.indirection = "None"
         THEN Ok([result EXCEPT !.indirection = "Ptr",
                                !.is_const = ~is_return_type],
                 "ValueToPointer", self)
         ELSE Ok(result, conversion, self)
    ELSE Ok(result, conversion, self)

\* The `if let CppTypeBase::Class` block, applied to the result and
\* conversion so far.
ClassStep(self, is_return_type, result, conversion) ==
    IF self.base.kind = "Class"
    THEN IF self.base.name = <<"QFlags">>
         THEN IF self.indirection # "None"
              THEN Panic("assertion failed: self.indirection == CppTypeIndirection::None")
              ELSE Ok([result EXCEPT !.base = BuiltInNumeric("UInt")],
                      "QFlagsToUInt", self)
         ELSE IF self.indirection = "None"
              THEN Ok([result EXCEPT !.indirection = "Ptr",
                                     !.is_const = ~is_return_type],
                      "ValueToPointer", self)
              ELSE Ok(result, conversion, self)
    ELSE Ok(result, conversion, self)

\* CppType::to_cpp_ffi_type
to_cpp_ffi_type(self, is_return_type) ==
    IF self.base.kind = "TemplateParameter"
    THEN Err("Unsupported type")
    ELSE IF self.base.kind = "FunctionPointer"
    THEN FnPtrToFfi(self)
    ELSE LET s == IndirectionStep(self)
         IN IF s.kind = "Err"
            THEN s
            ELSE ClassStep(self, is_return_type, s.result, s.conversion)

\* One call of to_cpp_ffi_type on the drawn type and position.
ToCppFfiType ==
    /\ mapResult = Pending
    /\ mapResult' = to_cpp_ffi_type(mapType, mapPos)
    /\ op' = "to_cpp_ffi_type"
    /\ UNCHANGED <<mapType, mapPos>>
    /\ UNCHANGED <<sameVars, phaseVars, procVars, dbVars, checkVars, pureVars>>

SpecMapInit ==
    /\ DbInit
    /\ op = "init"
    /\ ProcIdle
    /\ PhaseIdle
    /\ SameIdle
    /\ checks = <<>> /\ argEnv = None /\ argError = None /\ addResult = None
    /\ mapType \in Types
    /\ mapPos \in BOOLEAN
    /\ mapResult = Pending
    /\ PureIdle

SpecMapNext == ToCppFfiType

\* to_cpp_ffi_type applied to every type of Types in both positions.
SpecMap == SpecMapInit /\ [][SpecMapNext]_vars

(***************************************************************************)
(* Properties of the ledger (SpecDb)                                       *)
(***************************************************************************)

\* Declaration identity as the specification defines it: the same variant
\* and the same structural signature, whatever the documentation.
SameDeclaration(a, b) == a.variant = b.variant /\ a.sig = b.sig

\* The arguments of the add_cpp_data call a step makes.
IsMerge == op' = "add_cpp_data"
MergeSource == argSource'[1]
MergeData == argData'[1]

\* C1: after any sequence of add_cpp_data calls from the empty database,
\* no two items of the list hold declarations of identical identity,
\* whichever of the eight variants they are.
C1_NoDuplicateIdentity ==
    \A i, j \in 1..Len(items) :
        i # j => ~SameDeclaration(items[i].cpp_data, items[j].cpp_data)

\* C2: add_cpp_data is idempotent: a call that repeats the source and the
\* declaration of the call before it returns false and leaves the item
\* list, and so the item count, as it was.
C2_MergeIdempotent ==
    [][ (op = "add_cpp_data" /\ IsMerge
            /\ argSource' = argSource /\ argData' = argData)
        => (ret' = FALSE /\ items' = items) ]_vars

\* C3: provenance priority is one-way: a parser source merged for a
\* declaration whose item is synthesized replaces that item's source by
\* the incoming one; a synthesized source merged for a declaration whose
\* item is parser-sourced leaves it; a parser-sourced item never becomes
\* synthesized.
C3_ProvenancePriority ==
    [][ IsMerge =>
        \A i \in 1..Len(items) :
            /\ ( /\ SameDeclaration(items[i].cpp_data, MergeData)
                 /\ is_parser(MergeSource)
                 /\ ~is_parser(items[i].source) )
               => items'[i].source = MergeSource
            /\ ( /\ SameDeclaration(items[i].cpp_data, MergeData)
                 /\ ~is_parser(MergeSource)
                 /\ is_parser(items[i].source) )
               => items'[i].source = items[i].source
            /\ is_parser(items[i].source) => is_parser(items'[i].source) ]_vars

\* C4: add_cpp_data returns true exactly when no item has the identity of
\* the declaration; it then appends one item holding the declaration and
\* the source, with no boundary items and no wrapper item; otherwise it
\* returns false and the number of items is unchanged.
C4_NewIffAbsent ==
    [][ IsMerge =>
        IF \E i \in 1..Len(items) : SameDeclaration(items[i].cpp_data, MergeData)
        THEN ret' = FALSE /\ Len(items') = Len(items)
        ELSE /\ ret' = TRUE
             /\ items' = Append(items, [cpp_data |-> MergeData,
                                        source |-> MergeSource,
                                        ffi_items |-> None,
                                        rust_item |-> None]) ]_vars

(***************************************************************************)
(* Properties of the check list (SpecChecker)                              *)
(***************************************************************************)

\* Indices of the entries a list holds for an environment.
EntriesOf(list, env) == { i \in 1..Len(list) : list[i].env = env }

\* The errors a list holds for an environment.
ErrorsOf(list, env) == { list[i].error : i \in EntriesOf(list, env) }

\* C5: add returns Added exactly when the list had no entry for the
\* environment, Unchanged exactly when it had one with an equal error
\* (None and None included), and Changed{old} exactly when it had one with
\* a different error, old being the error stored before the call.
C5_AddClassifies ==
    [][ op' = "add" =>
        LET env == argEnv'[1]
            error == argError'[1]
            r == addResult'[1]
            had == EntriesOf(checks, env)
        IN /\ r.kind \in {"Added", "Unchanged", "Changed"}
           /\ r.kind = "Added" <=> had = {}
           /\ r.kind = "Unchanged" <=> \E i \in had : checks[i].error = error
           /\ r.kind = "Changed" <=> \E i \in had : checks[i].error # error
           /\ r.kind = "Changed" => \E i \in had : r.old = checks[i].error ]_vars

\* The example of C5 has run: an entry stored with no error was recorded
\* again with the error "boom" and add returned Changed{old: None}.
C5_Witness ==
    /\ op = "add"
    /\ argError = Some(Some("boom"))
    /\ addResult = Some(Changed(None))

\* C6: the list holds at most one entry per environment, and each call
\* leaves the environment it names with its error and every other
\* environment with what it had, so that an environment's entry holds the
\* error of the latest call for it.
C6_OneEntryPerEnv ==
    /\ [](\A env \in Envs : Cardinality(EntriesOf(checks, env)) <= 1)
    /\ [][ op' = "add" =>
           /\ ErrorsOf(checks', argEnv'[1]) = {argError'[1]}
           /\ \A env \in Envs \ {argEnv'[1]} :
                ErrorsOf(checks', env) = ErrorsOf(checks, env) ]_vars

\* An entry was overwritten while the list held entries of two environments
\* that differ in the library version only.
C6_Witness ==
    /\ op = "add"
    /\ addResult # None /\ addResult[1].kind = "Changed"
    /\ \E i, j \in 1..Len(checks) :
        /\ checks[i].env.target = checks[j].env.target
        /\ checks[i].env # checks[j].env
        /\ checks[i].env = argEnv[1]
        /\ checks[i].error = argError[1]
        /\ checks[j].error # argError[1]

(***************************************************************************)
(* Properties of the type mapper (SpecMap)                                 *)
(***************************************************************************)

Mapped == mapResult # Pending

IsFlags(t) == t.base.kind = "Class" /\ t.base.name = <<"QFlags">>

\* C7: whenever to_cpp_ffi_type succeeds the ffi_type is boundary-safe: no
\* reference-family indirection, no class by value, no template parameter
\* base (a template parameter base always fails), also for a function
\* pointer base that carries an indirection.
C7_BoundarySafe ==
    /\ (Mapped /\ mapType.base.kind = "TemplateParameter") => mapResult.kind = "Err"
    /\ mapResult.kind = "Ok" =>
        /\ mapResult.ffi_type.indirection \notin {"Ref", "PtrRef", "RValueRef"}
        /\ ~( mapResult.ffi_type.base.kind = "Class"
              /\ mapResult.ffi_type.indirection = "None" )
        /\ mapResult.ffi_type.base.kind # "TemplateParameter"

\* C8: a class other than the flags wrapper passed by value maps to a
\* pointer with conversion ValueToPointer, const exactly when the position
\* is not the return position.
C8_ClassByValue ==
    ( /\ Mapped
      /\ mapType.base.kind = "Class" /\ ~IsFlags(mapType)
      /\ mapType.indirection = "None" )
    => /\ mapResult.kind = "Ok"
       /\ mapResult.ffi_type.indirection = "Ptr"
       /\ mapResult.conversion = "ValueToPointer"
       /\ mapResult.ffi_type.is_const = ~mapPos

\* A const Rect by value was mapped in return position and came out as a
\* non-const pointer.
C8_Witness ==
    /\ mapType = CppType(TRUE, "None", Class(<<"Rect">>, None))
    /\ mapPos = TRUE
    /\ mapResult.kind = "Ok"
    /\ mapResult.ffi_type = CppType(FALSE, "Ptr", Class(<<"Rect">>, None))

\* C9: the flags wrapper class by value maps, in either position, to
\* BuiltInNumeric(UInt) with indirection None and conversion QFlagsToUInt.
C9_FlagsToUInt ==
    (Mapped /\ IsFlags(mapType) /\ mapType.indirection = "None")
    => /\ mapResult.kind = "Ok"
       /\ mapResult.ffi_type.base = BuiltInNumeric("UInt")
       /\ mapResult.ffi_type.indirection = "None"
       /\ mapResult.conversion = "QFlagsToUInt"

\* QFlags by value was mapped in parameter position.
C9_Witness ==
    /\ IsFlags(mapType) /\ mapType.indirection = "None"
    /\ mapPos = FALSE
    /\ mapResult.kind = "Ok"
    /\ mapResult.conversion = "QFlagsToUInt"

\* C10: to_cpp_ffi_type never ends in a process-fatal outcome: it returns a
\* CppFfiType or an error; the flags wrapper with indirection Ptr, PtrPtr
\* or Ref yields an error, not an abort and not a coerced result.
C10_NeverFatal ==
    /\ mapResult.kind \in {"Pending", "Ok", "Err"}
    /\ ( /\ Mapped /\ IsFlags(mapType)
         /\ mapType.indirection \in {"Ptr", "PtrPtr", "Ref"} )
       => mapResult.kind = "Err"

\* Whether the FunctionPointer arm has a reason to reject a function pointer
\* base: it is variadic, or an argument or the return type is a function
\* pointer, a template parameter, a reference or a class by value.
FnPtrRejected(b) ==
    LET inner == { b.arguments[k] : k \in 1..Len(b.arguments) } \cup {b.return_type}
    IN \/ b.allows_variable_arguments
       \/ \E a \in inner :
            \/ a.base.kind \in {"FunctionPointer", "TemplateParameter"}
            \/ a.indirection \in {"Ref", "PtrRef", "RValueRef"}
            \/ (a.base.kind = "Class" /\ a.indirection = "None")

\* C11: a function pointer type fails to map if it is variadic or holds,
\* as argument or return type, a function pointer, a template parameter, a
\* reference-family indirection or a class by value; otherwise it maps to
\* itself with NoChange, in either position.
C11_FunctionPointer ==
    (Mapped /\ mapType.base.kind = "FunctionPointer")
    => IF FnPtrRejected(mapType.base)
       THEN mapResult.kind = "Err"
       ELSE /\ mapResult.kind = "Ok"
            /\ mapResult.ffi_type = mapType
            /\ mapResult.conversion = "NoChange"

\* A function pointer with a pointer argument was mapped to itself in
\* return position.
C11_Witness ==
    /\ mapType.base.kind = "FunctionPointer"
    /\ Len(mapType.base.arguments) = 1
    /\ mapType.base.arguments[1].indirection = "Ptr"
    /\ mapPos = TRUE
    /\ mapResult.kind = "Ok"
    /\ mapResult.ffi_type = mapType

PlainBase(t) == t.base.kind \notin {"TemplateParameter", "FunctionPointer"}

\* C12 as stated: for every base that is neither a template parameter nor
\* a function pointer, None, Ptr and PtrPtr are kept, Ref becomes Ptr with
\* ReferenceToPointer (base and constness kept), PtrRef and RValueRef fail
\* with the unsupported-indirection error.
C12_IndirectionNormalized ==
    (Mapped /\ PlainBase(mapType))
    => CASE mapType.indirection \in {"None", "Ptr", "PtrPtr"} ->
                /\ mapResult.kind = "Ok"
                /\ mapResult.ffi_type.indirection = mapType.indirection
         [] mapType.indirection = "Ref" ->
                /\ mapResult.kind = "Ok"
                /\ mapResult.ffi_type =
                      CppType(mapType.is_const, "Ptr", mapType.base)
                /\ mapResult.conversion = "ReferenceToPointer"
         [] OTHER ->
                mapResult = Err("Unsupported level of indirection")

\* C12 amended: PtrRef and RValueRef fail for every such base; for a base
\* that is not a class, and for a class other than QFlags that is not by
\* value, the rule of C12 holds; a class other than QFlags by value becomes
\* Ptr with ValueToPointer; QFlags keeps None and aborts on Ptr, PtrPtr
\* and Ref.
C12_IndirectionNormalizedAmended ==
    (Mapped /\ PlainBase(mapType))
    => CASE mapType.indirection \in {"PtrRef", "RValueRef"} ->
                mapResult = Err("Unsupported level of indirection")
         [] IsFlags(mapType) /\ mapType.indirection = "None" ->
                /\ mapResult.kind = "Ok"
                /\ mapResult.ffi_type.indirection = "None"
         [] IsFlags(mapType) /\ mapType.indirection \in {"Ptr", "PtrPtr", "Ref"} ->
                mapResult.kind = "Panic"
         [] mapType.base.kind = "Class" /\ mapType.indirection = "None" ->
                /\ mapResult.kind = "Ok"
                /\ mapResult.ffi_type.indirection = "Ptr"
                /\ mapResult.conversion = "ValueToPointer"
         [] mapType.indirection = "Ref" ->
                /\ mapResult.kind = "Ok"
                /\ mapResult.ffi_type =
                      CppType(mapType.is_const, "Ptr", mapType.base)
                /\ mapResult.conversion = "ReferenceToPointer"
         [] OTHER ->
                /\ mapResult.kind = "Ok"
                /\ mapResult.ffi_type.indirection = mapType.indirection

\* A const reference to the class Rect was mapped to a const pointer to it.
C12_Witness ==
    /\ mapType = CppType(TRUE, "Ref", Class(<<"Rect">>, None))
    /\ mapResult.kind = "Ok"
    /\ mapResult.ffi_type = CppType(TRUE, "Ptr", Class(<<"Rect">>, None))
    /\ mapResult.conversion = "ReferenceToPointer"

(***************************************************************************)
(* cpp_type.rs: to_cpp_code and caption                                    *)
(***************************************************************************)

\* The text of a sequence of pieces.
RECURSIVE Concat(_)
Concat(pieces) ==
    IF pieces = <<>> THEN "" ELSE Head(pieces) \o Concat(Tail(pieces))

\* [String]::join(sep)
RECURSIVE Join(_, _)
Join(texts, sep) ==
    IF texts = <<>> THEN ""
    ELSE IF Len(texts) = 1 THEN texts[1]
    ELSE texts[1] \o sep \o Join(Tail(texts), sep)

\* str::replace(from, to) on a name given by its pieces, `from` being a piece.
Replace(name, from, to) ==
    Concat([k \in 1..Len(name) |-> IF name[k] = from THEN to ELSE name[k]])

\* CppBuiltInNumericType::to_cpp_code, as pieces.
CppBuiltInNumericType_to_cpp_code(t) ==
    CASE t = "Bool" -> <<"bool">>
      [] t = "CharS" -> <<"char">>
      [] t = "CharU" -> <<"char">>
      [] t = "SChar" -> <<"signed", " ", "char">>
      [] t = "UChar" -> <<"unsigned", " ", "char">>
      [] t = "WChar" -> <<"wchar_t">>
      [] t = "Char16" -> <<"char16_t">>
      [] t = "Char32" -> <<"char32_t">>
      [] t = "Short" -> <<"short">>
      [] t = "UShort" -> <<"unsigned", " ", "short">>
      [] t = "Int" -> <<"int">>
      [] t = "UInt" -> <<"unsigned", " ", "int">>
      [] t = "Long" -> <<"long">>
      [] t = "ULong" -> <<"unsigned", " ", "long">>
      [] t = "LongLong" -> <<"long", " ", "long">>
      [] t = "ULongLong" -> <<"unsigned", " ", "long", " ", "long">>
      [] t = "Int128" -> <<"__int128_t">>
      [] t = "UInt128" -> <<"__uint128_t">>
      [] t = "Float" -> <<"float">>
      [] t = "Double" -> <<"double">>
      [] t = "LongDouble" -> <<"long", " ", "double">>

\* A returned String.
TextOk(text) == [kind |-> "Ok", text |-> text]

\* The first result of a sequence that is not Ok, None if all are:
\* what a loop of try! (or of calls that may panic) stops at.
FirstFailure(results) ==
    LET bad == { k \in 1..Len(results) : results[k].kind # "Ok" }
    IN IF bad = {} THEN None
       ELSE Some(results[CHOOSE k \in bad : \A j \in bad : k <= j])

\* The texts of a sequence of Ok results.
Texts(results) == [k \in 1..Len(results) |-> results[k].text]

\* The suffix CppType::to_cpp_code writes for an indirection.
IndirectionCode(indirection) ==
    CASE indirection = "None" -> ""
      [] indirection = "Ptr" -> "*"
      [] indirection = "Ref" -> "&"
      [] indirection = "PtrRef" -> "*&"
      [] indirection = "PtrPtr" -> "**"
      [] indirection = "RValueRef" -> "&&"

RECURSIVE CppTypeBase_to_cpp_code(_)
RECURSIVE CppType_to_cpp_code(_)
RECURSIVE CppTypeBase_to_cpp_code_skipErrors(_)

\* CppTypeBase::to_cpp_code leaving out the template arguments and function
\* arguments whose rendering fails, instead of returning their error.
CppTypeBase_to_cpp_code_skipErrors(self) ==
    CASE self.kind = "Void" -> TextOk("void")
      [] self.kind = "BuiltInNumeric" ->
            TextOk(Concat(CppBuiltInNumericType_to_cpp_code(self.numeric)))
      [] self.kind \in {"Enum", "SpecificNumeric", "PointerSizedInteger"} ->
            TextOk(Concat(self.name))
      [] self.kind = "Class" ->
            IF self.template_arguments = None
            THEN TextOk(Concat(self.name))
            ELSE LET args == self.template_arguments[1]
                     rs == [k \in 1..Len(args) |-> CppType_to_cpp_code(args[k])]
                     ok == SelectSeq(rs, LAMBDA r : r.kind = "Ok")
                 IN TextOk(Concat(self.name) \o "< " \o Join(Texts(ok), ", ") \o " >")
      [] self.kind = "TemplateParameter" ->
            Err("template parameters are not supported here yet")
      [] self.kind = "FunctionPointer" ->
            IF self.allows_variable_arguments
            THEN Err("Function pointers with variadic arguments are not supported")
            ELSE LET rs == [k \in 1..Len(self.arguments) |->
                                CppType_to_cpp_code(self.arguments[k])]
                     ok == SelectSeq(rs, LAMBDA r : r.kind = "Ok")
                     rt == CppType_to_cpp_code(self.return_type)
                 IN IF rt.kind # "Ok" THEN rt
                    ELSE TextOk(rt.text \o " (*FN_PTR)(" \o Join(Texts(ok), ", ") \o ")")

\* CppTypeBase::to_cpp_code
CppTypeBase_to_cpp_code(self) ==
    CASE self.kind = "Void" -> TextOk("void")
      [] self.kind = "BuiltInNumeric" ->
            TextOk(Concat(CppBuiltInNumericType_to_cpp_code(self.numeric)))
      [] self.kind \in {"Enum", "SpecificNumeric", "PointerSizedInteger"} ->
            TextOk(Concat(self.name))
      [] self.kind = "Class" ->
            IF self.template_arguments = None
            THEN TextOk(Concat(self.name))
            ELSE LET args == self.template_arguments[1]
                     rs == [k \in 1..Len(args) |-> CppType_to_cpp_code(args[k])]
                     f == FirstFailure(rs)
                 IN IF f # None THEN f[1]
                    ELSE TextOk(Concat(self.name) \o "< " \o Join(Texts(rs), ", ") \o " >")
      [] self.kind = "TemplateParameter" ->
            Err("template parameters are not supported here yet")
      [] self.kind = "FunctionPointer" ->
            IF self.allows_variable_arguments
            THEN Err("Function pointers with variadic arguments are not supported")
            ELSE LET rs == [k \in 1..Len(self.arguments) |->
                                CppType_to_cpp_code(self.arguments[k])]
                     f == FirstFailure(rs)
                     rt == CppType_to_cpp_code(self.return_type)
                 IN IF f # None THEN f[1]
                    ELSE IF rt.kind # "Ok" THEN rt
                    ELSE TextOk(rt.text \o " (*FN_PTR)(" \o Join(Texts(rs), ", ") \o ")")

\* CppType::to_cpp_code
CppType_to_cpp_code(self) ==
    LET name == CppTypeBase_to_cpp_code(self.base)
    IN IF name.kind # "Ok" THEN name
       ELSE TextOk((IF self.is_const THEN "const " ELSE "") \o name.text
                   \o IndirectionCode(self.indirection))

\* TypeCaptionStrategy
TypeCaptionStrategies == {"Short", "Full"}

RECURSIVE CppTypeBase_caption(_)
RECURSIVE CppType_caption(_, _)

\* CppTypeBase::caption; a panic! is the outcome Panic.
CppTypeBase_caption(self) ==
    CASE self.kind = "Void" -> TextOk("void")
      [] self.kind = "BuiltInNumeric" ->
            TextOk(Replace(CppBuiltInNumericType_to_cpp_code(self.numeric), " ", "_"))
      [] self.kind \in {"SpecificNumeric", "PointerSizedInteger"} ->
            TextOk(Concat(self.name))
      [] self.kind = "Enum" -> TextOk(Replace(self.name, "::", "_"))
      [] self.kind = "Class" ->
            LET name_caption == Replace(self.name, "::", "_")
            IN IF self.template_arguments = None
               THEN TextOk(name_caption)
               ELSE LET args == self.template_arguments[1]
                        rs == [k \in 1..Len(args) |-> CppType_caption(args[k], "Full")]
                        f == FirstFailure(rs)
                    IN IF f # None THEN f[1]
                       ELSE TextOk(name_caption \o "_" \o Join(Texts(rs), "_"))
      [] self.kind = "TemplateParameter" ->
            Panic("template parameters are not supported here yet")
      [] self.kind = "FunctionPointer" ->
            Panic("function pointers are not supported here yet")

\* The suffix CppType::caption writes for an indirection.
IndirectionCaption(indirection) ==
    CASE indirection = "None" -> ""
      [] indirection = "Ptr" -> "_ptr"
      [] indirection = "Ref" -> "_ref"
      [] indirection = "PtrRef" -> "_ptr_ref"
      [] indirection = "PtrPtr" -> "_ptr_ptr"
      [] indirection = "RValueRef" -> "_rvalue_ref"

\* CppType::caption
CppType_caption(self, strategy) ==
    LET b == CppTypeBase_caption(self.base)
    IN IF b.kind # "Ok" THEN b
       ELSE IF strategy = "Short" THEN b
       ELSE TextOk((IF self.is_const THEN "const_" ELSE "") \o b.text
                   \o IndirectionCaption(self.indirection))

\* A variadic function pointer, and types that hold one or a template
\* parameter one level down.
VariadicFnPtr ==
    CppType(FALSE, "None", FunctionPointer(CppType(FALSE, "None", Void), <<>>, TRUE))

NestedBases ==
    { Class(<<"QList">>, Some(<<t>>)) : t \in FnInnerTypes \cup {VariadicFnPtr} }
    \cup { Class(<<"QMap">>, Some(<<CppType(FALSE, "None", BuiltInNumeric("UInt")), t>>)) :
             t \in {CppType(FALSE, "None", TemplateParameter),
                    CppType(TRUE, "Ref", Class(<<"ns", "::", "Rect">>, None))} }
    \cup { FunctionPointer(VariadicFnPtr, <<>>, FALSE),
           FunctionPointer(CppType(FALSE, "None", Void), <<VariadicFnPtr>>, FALSE),
           Class(<<"QList">>,
                 Some(<<CppType(FALSE, "None",
                                Class(<<"QList">>,
                                      Some(<<CppType(FALSE, "None", TemplateParameter)>>)))>>)) }

\* The types to_cpp_code and caption are applied to.
TextTypes ==
    Types \cup { CppType(c, i, b) : c \in BOOLEAN, i \in Indirections, b \in NestedBases }

\* One call of CppType::to_cpp_code.
ToCppCode ==
    /\ textResult = Pending
    /\ textResult' = CppType_to_cpp_code(textType)
    /\ op' = "to_cpp_code"
    /\ UNCHANGED <<textType, textStrategy>>
    /\ UNCHANGED <<sameVars, phaseVars, procVars, dbVars, checkVars, mapVars, nameVars, sigVars, capVars>>

\* One call of CppType::caption with the drawn strategy.
Caption ==
    /\ textResult = Pending
    /\ textResult' = CppType_caption(textType, textStrategy)
    /\ op' = "caption"
    /\ UNCHANGED <<textType, textStrategy>>
    /\ UNCHANGED <<sameVars, phaseVars, procVars, dbVars, checkVars, mapVars, nameVars, sigVars, capVars>>

SpecTextInit ==
    /\ DbInit
    /\ op = "init"
    /\ ProcIdle
    /\ PhaseIdle
    /\ SameIdle
    /\ checks = <<>> /\ argEnv = None /\ argError = None /\ addResult = None
    /\ MapIdle
    /\ textType \in TextTypes
    /\ textStrategy \in TypeCaptionStrategies
    /\ textResult = Pending
    /\ NameIdle
    /\ SigIdle
    /\ CapIdle

SpecTextNext == ToCppCode \/ Caption

\* to_cpp_code and caption applied to every type of TextTypes.
SpecText == SpecTextInit /\ [][SpecTextNext]_vars

\* Whether a type is, or holds as template argument, function argument or
\* return type, a template parameter or a variadic function pointer.
RECURSIVE HoldsUnsupported(_)
HoldsUnsupported(t) ==
    CASE t.base.kind = "TemplateParameter" -> TRUE
      [] t.base.kind = "FunctionPointer" ->
            \/ t.base.allows_variable_arguments
            \/ HoldsUnsupported(t.base.return_type)
            \/ \E k \in 1..Len(t.base.arguments) : HoldsUnsupported(t.base.arguments[k])
      [] t.base.kind = "Class" ->
            /\ t.base.template_arguments # None
            /\ \E k \in 1..Len(t.base.template_arguments[1]) :
                    HoldsUnsupported(t.base.template_arguments[1][k])
      [] OTHER -> FALSE

\* C13: to_cpp_code returns an error, never a text, for a type that is a
\* template parameter or a variadic function pointer, or holds one as a
\* class template argument or as argument or return type of a function
\* pointer.
C13_RenderRejects ==
    (op = "to_cpp_code" /\ HoldsUnsupported(textType)) => textResult.kind = "Err"

\* A class whose template argument is a template parameter was rendered
\* and the call returned the error.
C13_Witness ==
    /\ op = "to_cpp_code"
    /\ textType.base.kind = "Class"
    /\ textType.base.template_arguments # None
    /\ textType.base.template_arguments[1][1].base.kind = "TemplateParameter"
    /\ textResult.kind = "Err"

\* C14: caption never panics: for every type, those with a template
\* parameter or function pointer base (directly or as class template
\* argument) included, it returns a label or a failure result.
C14_CaptionNeverPanics ==
    op = "caption" => textResult.kind \in {"Ok", "Err"}

(***************************************************************************)
(* cpp_ffi_data.rs: c_base_name                                            *)
(***************************************************************************)

\* ReturnValueAllocationPlace
AllocationPlaces == {"Stack", "Heap", "NotApplicable"}

\* CppMethod: its name as pieces, its class membership (the class, the
\* constness of the method, and whether it is a constructor, a destructor
\* or a regular method) and its operator.
CppMethod(name, class_membership, operator) ==
    [name |-> name, class_membership |-> class_membership, operator |-> operator]

ClassMembership(class_type, kind, is_const) ==
    [class_type |-> class_type, kind |-> kind, is_const |-> is_const]

\* CppMethod::is_constructor and CppMethod::is_destructor
is_constructor(m) ==
    m.class_membership # None /\ m.class_membership[1].kind = "Constructor"
is_destructor(m) ==
    m.class_membership # None /\ m.class_membership[1].kind = "Destructor"

\* CppOperator: a conversion to a type, or an operator with a C name.
Conversion(cpp_type) == [kind |-> "Conversion", cpp_type |-> cpp_type]
OtherOperator(c_name) == [kind |-> "Other", c_name |-> c_name]

\* CppOperator::c_name
CppOperator_c_name(operator) == operator.c_name

Methods ==
    { CppMethod(n, c, o) :
        n \in { <<"add">>, <<"ns", "::", "add">> },
        c \in {None} \cup
              { Some(ClassMembership(t, k, q)) :
                  t \in { Class(<<"Rect">>, None), Class(<<"ns", "::", "Rect">>, None) },
                  k \in {"Constructor", "Destructor", "Regular"},
                  q \in BOOLEAN },
        o \in { None, Some(OtherOperator("add")),
                Some(Conversion(CppType(TRUE, "Ptr", BuiltInNumeric("UInt")))),
                Some(Conversion(CppType(FALSE, "None", TemplateParameter))) } }

IncludeFiles == { <<"math", ".", "h">>, <<"QRect">> }

\* add_place_note with the two suffixes exchanged.
add_place_note_swapped(allocation_place, name) ==
    CASE allocation_place = "Stack" -> name \o "_as_ptr"
      [] allocation_place = "Heap" -> name \o "_to_output"
      [] allocation_place = "NotApplicable" -> name

\* The closure add_place_note of c_base_name.
add_place_note(allocation_place, name) ==
    CASE allocation_place = "Stack" -> name \o "_to_output"
      [] allocation_place = "Heap" -> name \o "_as_ptr"
      [] allocation_place = "NotApplicable" -> name

\* c_base_name passing the names of constructors and destructors through
\* add_place_note like every other name.
c_base_name_noteAll(cpp_method, allocation_place, include_file) ==
    LET scope_prefix ==
            IF cpp_method.class_membership # None
            THEN LET c == CppTypeBase_caption(cpp_method.class_membership[1].class_type)
                 IN IF c.kind = "Ok" THEN TextOk(c.text \o "_") ELSE c
            ELSE TextOk(Concat(include_file) \o "_G_")
        method_name ==
            IF is_constructor(cpp_method)
            THEN CASE allocation_place = "Stack" ->
                        TextOk(add_place_note(allocation_place, "constructor"))
                   [] allocation_place = "Heap" ->
                        TextOk(add_place_note(allocation_place, "new"))
                   [] OTHER -> Err("NotApplicable is not allowed for constructor")
            ELSE IF is_destructor(cpp_method)
            THEN CASE allocation_place = "Stack" ->
                        TextOk(add_place_note(allocation_place, "destructor"))
                   [] allocation_place = "Heap" ->
                        TextOk(add_place_note(allocation_place, "delete"))
                   [] OTHER -> Err("NotApplicable is not allowed for constructor")
            ELSE IF cpp_method.operator # None
            THEN LET operator == cpp_method.operator[1]
                 IN IF operator.kind = "Conversion"
                    THEN LET c == CppType_caption(operator.cpp_type, "Full")
                         IN IF c.kind = "Ok"
                            THEN TextOk(add_place_note(allocation_place,
                                                       "convert_to_" \o c.text))
                            ELSE c
                    ELSE TextOk(add_place_note(allocation_place,
                                    "operator_" \o CppOperator_c_name(operator)))
            ELSE TextOk(add_place_note(allocation_place,
                                       Replace(cpp_method.name, "::", "_")))
    IN IF scope_prefix.kind # "Ok" THEN scope_prefix
       ELSE IF method_name.kind # "Ok" THEN method_name
       ELSE TextOk(scope_prefix.text \o method_name.text)

\* c_base_name
c_base_name(cpp_method, allocation_place, include_file) ==
    LET scope_prefix ==
            IF cpp_method.class_membership # None
            THEN LET c == CppTypeBase_caption(cpp_method.class_membership[1].class_type)
                 IN IF c.kind = "Ok" THEN TextOk(c.text \o "_") ELSE c
            ELSE TextOk(Concat(include_file) \o "_G_")
        method_name ==
            IF is_constructor(cpp_method)
            THEN CASE allocation_place = "Stack" -> TextOk("constructor")
                   [] allocation_place = "Heap" -> TextOk("new")
                   [] OTHER -> Err("NotApplicable is not allowed for constructor")
            ELSE IF is_destructor(cpp_method)
            THEN CASE allocation_place = "Stack" -> TextOk("destructor")
                   [] allocation_place = "Heap" -> TextOk("delete")
                   [] OTHER -> Err("NotApplicable is not allowed for constructor")
            ELSE IF cpp_method.operator # None
            THEN LET operator == cpp_method.operator[1]
                 IN IF operator.kind = "Conversion"
                    THEN LET c == CppType_caption(operator.cpp_type, "Full")
                         IN IF c.kind = "Ok"
                            THEN TextOk(add_place_note(allocation_place,
                                                       "convert_to_" \o c.text))
                            ELSE c
                    ELSE TextOk(add_place_note(allocation_place,
                                    "operator_" \o CppOperator_c_name(operator)))
            ELSE TextOk(add_place_note(allocation_place,
                                       Replace(cpp_method.name, "::", "_")))
    IN IF scope_prefix.kind # "Ok" THEN scope_prefix
       ELSE IF method_name.kind # "Ok" THEN method_name
       ELSE TextOk(scope_prefix.text \o method_name.text)

\* One call of c_base_name on the drawn method, place and include file.
CBaseName ==
    /\ nameResult = Pending
    /\ nameResult' = c_base_name(nameMethod, namePlace, nameInclude)
    /\ op' = "c_base_name"
    /\ UNCHANGED <<nameMethod, namePlace, nameInclude>>
    /\ UNCHANGED <<sameVars, phaseVars, procVars, dbVars, checkVars, mapVars, textVars, sigVars, capVars>>

SpecNameInit ==
    /\ DbInit
    /\ op = "init"
    /\ ProcIdle
    /\ PhaseIdle
    /\ SameIdle
    /\ checks = <<>> /\ argEnv = None /\ argError = None /\ addResult = None
    /\ MapIdle
    /\ TextIdle
    /\ nameMethod \in Methods
    /\ namePlace \in AllocationPlaces
    /\ nameInclude \in IncludeFiles
    /\ nameResult = Pending
    /\ SigIdle
    /\ CapIdle

SpecNameNext == CBaseName

\* c_base_name applied to every method of Methods, place and include file.
SpecName == SpecNameInit /\ [][SpecNameNext]_vars

Named == op = "c_base_name"

\* The scope prefix of a method: the caption of its class and "_" for a
\* member, the include file and "_G_" for a free function.
ScopePrefix(m, include_file) ==
    IF m.class_membership # None
    THEN CppTypeBase_caption(m.class_membership[1].class_type).text \o "_"
    ELSE Concat(include_file) \o "_G_"

\* C15: constructors are named prefix + "constructor" (Stack) or prefix +
\* "new" (Heap), destructors prefix + "destructor" (Stack) or prefix +
\* "delete" (Heap), with no allocation-place suffix; NotApplicable is an
\* error for both.
C15_ConstructorNames ==
    (Named /\ (is_constructor(nameMethod) \/ is_destructor(nameMethod)))
    => LET prefix == ScopePrefix(nameMethod, nameInclude)
           ctor == is_constructor(nameMethod)
       IN CASE namePlace = "Stack" ->
                 nameResult = TextOk(prefix \o (IF ctor THEN "constructor" ELSE "destructor"))
            [] namePlace = "Heap" ->
                 nameResult = TextOk(prefix \o (IF ctor THEN "new" ELSE "delete"))
            [] OTHER -> nameResult.kind = "Err"

\* The destructor of ns::Rect was named for the heap.
C15_Witness ==
    /\ Named
    /\ is_destructor(nameMethod)
    /\ nameMethod.class_membership[1].class_type = Class(<<"ns", "::", "Rect">>, None)
    /\ namePlace = "Heap"
    /\ nameResult = TextOk("ns_Rect_delete")

\* C16: a declaration that is neither constructor, destructor nor operator
\* is named prefix + its name with every "::" replaced by "_" + suffix; the
\* prefix is the class caption and "_" for members, the include file and
\* "_G_" for free functions; the suffix is "_to_output" for Stack,
\* "_as_ptr" for Heap and empty for NotApplicable.
C16_PlainNames ==
    ( /\ Named
      /\ ~is_constructor(nameMethod) /\ ~is_destructor(nameMethod)
      /\ nameMethod.operator = None )
    => LET suffix == CASE namePlace = "Stack" -> "_to_output"
                       [] namePlace = "Heap" -> "_as_ptr"
                       [] OTHER -> ""
       IN nameResult =
            TextOk(ScopePrefix(nameMethod, nameInclude)
                   \o Replace(nameMethod.name, "::", "_") \o suffix)

\* The member ns::add of Rect was named for the stack, and the free
\* function of the same name likewise.
C16_Witness ==
    /\ Named
    /\ nameMethod.name = <<"ns", "::", "add">>
    /\ nameMethod.operator = None
    /\ namePlace = "Stack"
    /\ \/ /\ nameMethod.class_membership # None
          /\ nameMethod.class_membership[1].kind = "Regular"
          /\ nameResult = TextOk("Rect_ns_add_to_output")
       \/ /\ nameMethod.class_membership = None
          /\ nameResult = TextOk("QRect_G_ns_add_to_output")

\* C17: the free function add, no operator, place NotApplicable, found in
\* the include file math.h, gets the base name math_G_add.
C17_MathAdd ==
    ( /\ Named
      /\ nameMethod = CppMethod(<<"add">>, None, None)
      /\ namePlace = "NotApplicable"
      /\ nameInclude = <<"math", ".", "h">> )
    => nameResult = TextOk("math_G_add")

(***************************************************************************)
(* cpp_ffi_data.rs: the captions of arguments and signatures               *)
(***************************************************************************)

\* The longest argument list of a signature.
MaxSigArgs == 2

\* CppFfiArgumentMeaning
This == [kind |-> "This"]
Argument(i) == [kind |-> "Argument", index |-> i]
ReturnValue == [kind |-> "ReturnValue"]

\* is_argument answering true for every meaning.
CppFfiArgumentMeaning_is_argument_always(self) == TRUE

\* CppFfiArgumentMeaning::is_argument
CppFfiArgumentMeaning_is_argument(self) == self.kind = "Argument"

\* ArgumentCaptionStrategy
NameOnly == [kind |-> "NameOnly"]
TypeOnly(type_strategy) == [kind |-> "TypeOnly", type_strategy |-> type_strategy]
TypeAndName(type_strategy) == [kind |-> "TypeAndName", type_strategy |-> type_strategy]

ArgumentCaptionStrategies ==
    {NameOnly} \cup { TypeOnly(s) : s \in TypeCaptionStrategies }
               \cup { TypeAndName(s) : s \in TypeCaptionStrategies }

\* CppFfiType: the boundary type of `original_type` as to_cpp_ffi_type
\* gives it for an argument.
CppFfiType(original_type) == to_cpp_ffi_type(original_type, FALSE)

\* CppFfiFunctionArgument
CppFfiFunctionArgument(name, argument_type, meaning) ==
    [name |-> name, argument_type |-> argument_type, meaning |-> meaning]

\* CppFfiFunctionArgument::caption
CppFfiFunctionArgument_caption(self, strategy) ==
    CASE strategy.kind = "NameOnly" -> TextOk(self.name)
      [] strategy.kind = "TypeOnly" ->
            CppType_caption(self.argument_type.original_type, strategy.type_strategy)
      [] strategy.kind = "TypeAndName" ->
            LET c == CppType_caption(self.argument_type.original_type,
                                     strategy.type_strategy)
            IN IF c.kind = "Ok" THEN TextOk(c.text \o "_" \o self.name) ELSE c

\* The subsequence of the elements of s for which keep[k] holds.
RECURSIVE Filter(_, _)
Filter(s, keep) ==
    IF s = <<>> THEN <<>>
    ELSE (IF keep[1] THEN <<Head(s)>> ELSE <<>>)
         \o Filter(Tail(s), Tail(keep))

\* CppFfiFunctionSignature::caption
CppFfiFunctionSignature_caption(arguments, strategy) ==
    LET real == Filter(arguments,
                       [k \in 1..Len(arguments) |->
                           CppFfiArgumentMeaning_is_argument(arguments[k].meaning)])
        captions == [k \in 1..Len(real) |->
                        CppFfiFunctionArgument_caption(real[k], strategy)]
        failure == FirstFailure(captions)
    IN IF failure # None THEN failure[1]
       ELSE LET r == Join(Texts(captions), "_")
            IN IF r = "" THEN TextOk("no_args") ELSE TextOk(r)

\* The types of the arguments of the signatures.
SigTypes ==
    { CppType(FALSE, "None", BuiltInNumeric("Int")),
      CppType(TRUE, "Ref", Class(<<"ns", "::", "Rect">>, None)) }

\* The arguments of the signatures: the receiver, the return buffer and
\* real parameters, one of them with the name no_args.
SigArgs ==
    { CppFfiFunctionArgument("this_ptr",
          CppFfiType(CppType(FALSE, "Ptr", Class(<<"ns", "::", "Rect">>, None))), This),
      CppFfiFunctionArgument("output",
          CppFfiType(CppType(FALSE, "Ptr", Class(<<"ns", "::", "Rect">>, None))), ReturnValue) }
    \cup { CppFfiFunctionArgument(n, CppFfiType(t), Argument(i)) :
             n \in {"x", "no_args"}, t \in SigTypes, i \in 0..1 }

\* One call of CppFfiFunctionSignature::caption.
SignatureCaption ==
    /\ sigResult = Pending
    /\ sigResult' = CppFfiFunctionSignature_caption(sigArguments, sigStrategy)
    /\ op' = "signature_caption"
    /\ UNCHANGED <<sigArguments, sigStrategy>>
    /\ UNCHANGED <<sameVars, phaseVars, procVars, dbVars, checkVars, mapVars, textVars, nameVars, capVars>>

SpecSigInit ==
    /\ DbInit
    /\ op = "init"
    /\ ProcIdle
    /\ PhaseIdle
    /\ SameIdle
    /\ checks = <<>> /\ argEnv = None /\ argError = None /\ addResult = None
    /\ MapIdle
    /\ TextIdle
    /\ NameIdle
    /\ sigArguments \in SeqsUpTo(SigArgs, MaxSigArgs)
    /\ sigStrategy \in ArgumentCaptionStrategies
    /\ sigResult = Pending
    /\ CapIdle

SpecSigNext == SignatureCaption

\* CppFfiFunctionSignature::caption applied to every argument list of at
\* most MaxSigArgs arguments under every strategy.
SpecSig == SpecSigInit /\ [][SpecSigNext]_vars

SigCaptioned == op = "signature_caption"

\* The positions of the real parameters of the signature, in order.
RealPositions == { k \in 1..Len(sigArguments) : sigArguments[k].meaning.kind = "Argument" }

\* The caption the strategy gives the argument at position k.
ArgCaptionAt(k) ==
    LET a == sigArguments[k]
        t == a.argument_type.original_type
    IN CASE sigStrategy.kind = "NameOnly" -> a.name
         [] sigStrategy.kind = "TypeOnly" ->
              CppType_caption(t, sigStrategy.type_strategy).text
         [] OTHER -> CppType_caption(t, sigStrategy.type_strategy).text \o "_" \o a.name

\* The captions of the real parameters from position k on, each followed by
\* "_" except the last.
RECURSIVE JoinedFrom(_)
JoinedFrom(k) ==
    IF k > Len(sigArguments) THEN ""
    ELSE IF k \notin RealPositions THEN JoinedFrom(k + 1)
    ELSE ArgCaptionAt(k)
         \o (IF \E j \in RealPositions : j > k THEN "_" ELSE "")
         \o JoinedFrom(k + 1)

\* C18 as stated: the caption is the captions of the real parameters in
\* order joined by "_", and it is "no_args" exactly when the signature has
\* no real parameter.
C18_NoArgsExactly ==
    SigCaptioned
    => /\ (RealPositions # {} => sigResult = TextOk(JoinedFrom(1)))
       /\ (sigResult = TextOk("no_args") <=> RealPositions = {})

\* C18, amended: the caption is the captions of the real parameters in
\* order joined by "_", the receiver and the return buffer left out; it is
\* "no_args" when that text is empty, as it is when the signature has no
\* real parameter.
C18_NoArgsWhenEmpty ==
    SigCaptioned
    => /\ sigResult = TextOk(IF JoinedFrom(1) = "" THEN "no_args" ELSE JoinedFrom(1))
       /\ (RealPositions = {} => sigResult = TextOk("no_args"))

\* A signature with receiver, return buffer and two real parameters was
\* captioned by type and name, and one with the only real parameter named
\* no_args by name.
C18_Witness ==
    /\ SigCaptioned
    /\ \/ /\ Len(sigArguments) = 2
          /\ sigArguments[1].meaning = This
          /\ sigResult = TextOk("const_ns_Rect_ref_x")
       \/ /\ Len(sigArguments) = 2
          /\ sigArguments[2].meaning = ReturnValue
          /\ sigResult = TextOk("no_args")
          /\ RealPositions # {}

(***************************************************************************)
(* cpp_ffi_data.rs: the caption of a method among its overloads            *)
(***************************************************************************)

\* The longest parameter list of an overload.
MaxOvArgs == 1

\* MethodCaptionStrategy
ArgumentsOnly(s) == [kind |-> "ArgumentsOnly", arguments |-> s]
ConstOnly == [kind |-> "ConstOnly"]
ConstAndArguments(s) == [kind |-> "ConstAndArguments", arguments |-> s]

MethodCaptionStrategies ==
    {ConstOnly} \cup { ArgumentsOnly(s) : s \in ArgumentCaptionStrategies }
                \cup { ConstAndArguments(s) : s \in ArgumentCaptionStrategies }

\* CppFfiFunctionSignature
CppFfiFunctionSignature(arguments, return_type) ==
    [arguments |-> arguments, return_type |-> return_type]

\* CppMethodWithFfiSignature
CppMethodWithFfiSignature(cpp_method, allocation_place, c_signature) ==
    [cpp_method |-> cpp_method, allocation_place |-> allocation_place,
     c_signature |-> c_signature]

\* CppMethodWithFfiSignature::caption
CppMethodWithFfiSignature_caption(self, strategy) ==
    LET is_const == self.cpp_method.class_membership # None
                    /\ self.cpp_method.class_membership[1].is_const
    IN CASE strategy.kind = "ArgumentsOnly" ->
              CppFfiFunctionSignature_caption(self.c_signature.arguments,
                                              strategy.arguments)
         [] strategy.kind = "ConstOnly" ->
              IF is_const THEN TextOk("const") ELSE TextOk("")
         [] strategy.kind = "ConstAndArguments" ->
              LET r == IF is_const THEN "const_" ELSE ""
                  c == CppFfiFunctionSignature_caption(self.c_signature.arguments,
                                                       strategy.arguments)
              IN IF c.kind = "Ok" THEN TextOk(r \o c.text) ELSE c

\* The types of the parameters of the overloads.
OvTypes ==
    { CppType(c, i, BuiltInNumeric("Int")) : c \in BOOLEAN, i \in {"None", "Ptr"} }

OvArgNames == <<"x", "y">>

\* The overload `f` with the given parameter types: a method of Rect,
\* const or not, with its receiver as first boundary argument, or a free
\* function.
Overload(member, is_const, params) ==
    LET rect == Class(<<"Rect">>, None)
        this == IF member
                THEN << CppFfiFunctionArgument("this_ptr",
                            CppFfiType(CppType(is_const, "Ptr", rect)), This) >>
                ELSE <<>>
        real == [k \in 1..Len(params) |->
                    CppFfiFunctionArgument(OvArgNames[k], CppFfiType(params[k]),
                                           Argument(k - 1))]
    IN CppMethodWithFfiSignature(
          CppMethod(<<"f">>,
                    IF member THEN Some(ClassMembership(rect, "Regular", is_const))
                    ELSE None,
                    None),
          "NotApplicable",
          CppFfiFunctionSignature(this \o real, CppFfiType(CppType_void)))

\* The overloads of one scope: the methods `f` of Rect, or the free
\* functions `f` of one include file.
Overloads(member) ==
    { Overload(member, q, p) :
        q \in (IF member THEN BOOLEAN ELSE {FALSE}),
        p \in SeqsUpTo(OvTypes, MaxOvArgs) }

\* One call of CppMethodWithFfiSignature::caption, on the next overload.
MethodCaption ==
    /\ Len(capResults) < Len(capMethods)
    /\ capResults' = Append(capResults,
          CppMethodWithFfiSignature_caption(capMethods[Len(capResults) + 1],
                                            capStrategy))
    /\ op' = "method_caption"
    /\ UNCHANGED <<capMethods, capStrategy>>
    /\ UNCHANGED <<sameVars, phaseVars, procVars, dbVars, checkVars, mapVars, textVars, nameVars, sigVars>>

SpecCapInit ==
    /\ DbInit
    /\ op = "init"
    /\ ProcIdle
    /\ PhaseIdle
    /\ SameIdle
    /\ checks = <<>> /\ argEnv = None /\ argError = None /\ addResult = None
    /\ MapIdle
    /\ TextIdle
    /\ NameIdle
    /\ SigIdle
    /\ \E member \in BOOLEAN :
          capMethods \in { <<a, b>> : a \in Overloads(member), b \in Overloads(member) }
    /\ capStrategy \in MethodCaptionStrategies
    /\ capResults = <<>>

SpecCapNext == MethodCaption

\* Two overloads of one base name captioned one after the other under every
\* strategy.
SpecCap == SpecCapInit /\ [][SpecCapNext]_vars

\* The receiver of the overload is const.
ConstReceiver(mth) ==
    mth.cpp_method.class_membership # None /\ mth.cpp_method.class_membership[1].is_const

\* The types of the real parameters of the overload, in order.
ParamTypes(mth) ==
    LET real == Filter(mth.c_signature.arguments,
                       [k \in 1..Len(mth.c_signature.arguments) |->
                           mth.c_signature.arguments[k].meaning.kind = "Argument"])
    IN [k \in 1..Len(real) |-> real[k].argument_type.original_type]

\* C19: two overloads of one base name that differ in the constness of the
\* receiver or in the type of a real parameter get different captions under
\* the strongest strategy, const marker and argument types and names.
C19_OverloadsDistinct ==
    ( /\ Len(capResults) = 2
      /\ capStrategy = ConstAndArguments(TypeAndName("Full"))
      /\ \/ ConstReceiver(capMethods[1]) # ConstReceiver(capMethods[2])
         \/ ParamTypes(capMethods[1]) # ParamTypes(capMethods[2]) )
    => capResults[1] # capResults[2]

(***************************************************************************)
(* new_impl/processor.rs: process and the registration of environments     *)
(***************************************************************************)

\* The longest environment list.
MaxEnvs == 3

\* DataSource
DataSources == {"CppParser", "CppChecker"}

\* DataEnv: compared field by field.
DataEnv(target, data_source, cpp_library_version) ==
    [target |-> target, data_source |-> data_source,
     cpp_library_version |-> cpp_library_version]

LibraryVersions == {None, Some("5.9")}

\* The registration pushing the environment without looking for it.
Register_always(envs, env) == Append(envs, env)

\* The registration of `data.env` in current_database.environments.
Register(envs, env) ==
    IF ~(\E k \in 1..Len(envs) : envs[k] = env)
    THEN Append(envs, env)
    ELSE envs

\* A call of process up to its loop: the crate is loaded from the workspace.
Process(target, version) ==
    /\ procStatus # "running"
    /\ procStatus' = "running"
    /\ environments' = savedEnvironments
    /\ procTarget' = Some(target)
    /\ procVersion' = version
    /\ procEnv' = None
    /\ op' = "process"
    /\ UNCHANGED <<savedEnvironments, items, next_ffi_id, argSource, argData, ret>>
    /\ UNCHANGED <<sameVars, phaseVars, checkVars, mapVars, pureVars>>

\* The operations "run_cpp_parser" and "run_cpp_checker": the environment
\* is built and registered, then the parser or the checker runs; its
\* failure ends process with that error.
RunOperation(operation, data_source, ok) ==
    LET env == DataEnv(procTarget[1], data_source, procVersion)
        r == Register(environments, env)
    IN /\ procStatus = "running"
       /\ Len(r) <= MaxEnvs
       /\ environments' = r
       /\ procEnv' = Some(env)
       /\ procStatus' = IF ok THEN "running" ELSE "err"
       /\ op' = operation
       /\ UNCHANGED <<savedEnvironments, procTarget, procVersion>>
       /\ UNCHANGED <<items, next_ffi_id, argSource, argData, ret>>
       /\ UNCHANGED <<sameVars, phaseVars, checkVars, mapVars, pureVars>>

RunCppParser == \E ok \in BOOLEAN : RunOperation("run_cpp_parser", "CppParser", ok)

RunCppChecker == \E ok \in BOOLEAN : RunOperation("run_cpp_checker", "CppChecker", ok)

\* The operation "print_database".
PrintDatabase ==
    /\ procStatus = "running"
    /\ \E ok \in BOOLEAN : procStatus' = IF ok THEN "running" ELSE "err"
    /\ op' = "print_database"
    /\ UNCHANGED <<savedEnvironments, procTarget, procVersion, procEnv>>
    /\ UNCHANGED <<sameVars, phaseVars, dbVars, checkVars, mapVars, pureVars>>

\* The operations "generate_crate" and "clear": unimplemented!().
Unimplemented ==
    /\ procStatus = "running"
    /\ procStatus' = "panic"
    /\ \E o \in {"generate_crate", "clear"} : op' = o
    /\ UNCHANGED <<savedEnvironments, procTarget, procVersion, procEnv>>
    /\ UNCHANGED <<sameVars, phaseVars, dbVars, checkVars, mapVars, pureVars>>

\* Any other operation: process returns the error "unknown operation".
UnknownOperation ==
    /\ procStatus = "running"
    /\ procStatus' = "err"
    /\ op' = "unknown"
    /\ UNCHANGED <<savedEnvironments, procTarget, procVersion, procEnv>>
    /\ UNCHANGED <<sameVars, phaseVars, dbVars, checkVars, mapVars, pureVars>>

\* The end of the loop: the crate is put back into the workspace and saved.
Finish ==
    /\ procStatus = "running"
    /\ procStatus' = "ok"
    /\ savedEnvironments' = environments
    /\ op' = "finish"
    /\ UNCHANGED <<procTarget, procVersion, procEnv>>
    /\ UNCHANGED <<sameVars, phaseVars, dbVars, checkVars, mapVars, pureVars>>

SpecEnvInit ==
    /\ DbInit
    /\ op = "init"
    /\ ProcIdle
    /\ PhaseIdle
    /\ SameIdle
    /\ checks = <<>> /\ argEnv = None /\ argError = None /\ addResult = None
    /\ MapIdle
    /\ PureIdle

SpecEnvNext ==
    \/ \E target \in Targets, version \in LibraryVersions : Process(target, version)
    \/ RunCppParser
    \/ RunCppChecker
    \/ PrintDatabase
    \/ Unimplemented
    \/ UnknownOperation
    \/ Finish

\* Calls of process, one after the other, each with any operations.
SpecEnv == SpecEnvInit /\ [][SpecEnvNext]_vars

\* No two entries of the list are equal.
DuplicateFree(envs) ==
    \A j, k \in 1..Len(envs) : envs[j] = envs[k] => j = k

\* envs holds env.
Holds(envs, env) == \E k \in 1..Len(envs) : envs[k] = env

\* The step is a parser or checker operation, which registers procEnv'.
Registers == op' \in {"run_cpp_parser", "run_cpp_checker"}

\* C20: the environment list never holds two equal entries; a parser or
\* checker operation appends its environment at the end if the list does
\* not hold it and leaves the list as it is if it does, so that no entry is
\* removed or moved by a registration.
C20_Registration ==
    /\ [](DuplicateFree(environments) /\ DuplicateFree(savedEnvironments))
    /\ [][Registers =>
            /\ Len(environments') >= Len(environments)
            /\ SubSeq(environments', 1, Len(environments)) = environments
            /\ IF Holds(environments, procEnv'[1])
               THEN environments' = environments
               ELSE environments' = Append(environments, procEnv'[1])]_vars

\* The parser ran again in an environment that was registered before the
\* environment of the checker, and the list still holds both once.
C20_Witness ==
    /\ op = "run_cpp_parser"
    /\ Len(environments) >= 2
    /\ procEnv = Some(environments[1])
    /\ environments[2].data_source = "CppChecker"

(***************************************************************************)
(* database.rs: the checking phase, CppCheckerInfoList::add under any      *)
(* order of the finished checks                                            *)
(***************************************************************************)

\* The largest number of checks of one phase.
MaxChecks == 2

\* The items whose `checks` the phase writes.
CheckedItems == {1, 2}

\* The errors of the checks of the phase.
PhaseErrors == {None, Some("boom")}

\* The check lists an item can hold when the phase begins: none or one
\* entry of an earlier phase.
StartLists ==
    {<<>>} \cup { <<CppCheckerInfo(env, error)>> : env \in Envs, error \in PhaseErrors }

\* A finished check: the item, the environment and the error to record.
Check(item, env, error) == [item |-> item, env |-> env, error |-> error]

Checks == { Check(i, env, error) : i \in CheckedItems, env \in Envs, error \in PhaseErrors }

\* The sets of at most MaxChecks finished checks of pairwise distinct
\* (item, environment) pairs.
CheckSets ==
    { s \in SUBSET Checks :
        /\ Cardinality(s) <= MaxChecks
        /\ \A c, d \in s : (c.item = d.item /\ c.env = d.env) => c = d }

\* The single writer records one finished check, whichever it takes next:
\* one call of add on the list of the item.
RecordCheck(c) ==
    LET r == CppCheckerInfoList_add(phaseLists[c.item], c.env, c.error)
    IN /\ c \in phasePending
       /\ phaseLists' = [phaseLists EXCEPT ![c.item] = r.items]
       /\ phasePending' = phasePending \ {c}
       /\ phaseResults' = phaseResults \cup {[check |-> c, result |-> r.result]}
       /\ op' = "record_check"
       /\ UNCHANGED phaseStart
       /\ UNCHANGED <<sameVars, procVars, dbVars, checkVars, mapVars, pureVars>>

SpecPhaseInit ==
    /\ DbInit
    /\ op = "init"
    /\ ProcIdle
    /\ checks = <<>> /\ argEnv = None /\ argError = None /\ addResult = None
    /\ MapIdle
    /\ PureIdle
    /\ phaseStart \in [CheckedItems -> StartLists]
    /\ phaseLists = phaseStart
    /\ phasePending \in CheckSets
    /\ phaseResults = {}
    /\ SameIdle

SpecPhaseNext == \E c \in Checks : RecordCheck(c)

\* A checking phase: the finished checks are recorded one at a time in any
\* order.
SpecPhase == SpecPhaseInit /\ [][SpecPhaseNext]_vars

\* The (environment, error) entries of a check list.
EntrySet(list) == { <<list[k].env, list[k].error>> : k \in 1..Len(list) }

\* The checks recorded so far.
Recorded == { r.check : r \in phaseResults }

\* The entries item i must hold once the checks of `done` are recorded: the
\* entries it began with, those of a checked environment replaced.
EntriesAfter(i, done) ==
    { e \in EntrySet(phaseStart[i]) :
        ~(\E c \in done : c.item = i /\ c.env = e[1]) }
    \cup { <<c.env, c.error>> : c \in { d \in done : d.item = i } }

\* The classification of check c against the list its item began with.
ClassAtStart(c) ==
    LET old == { e \in EntrySet(phaseStart[c.item]) : e[1] = c.env }
    IN IF old = {} THEN Added
       ELSE LET e == CHOOSE x \in old : TRUE
            IN IF e[2] = c.error THEN Unchanged ELSE Changed(e[2])

\* C21: in whatever order the checks of pairwise distinct (item,
\* environment) pairs are recorded, the entries of every item and the
\* classification returned for every check are those fixed by the lists the
\* phase began with and the set of checks recorded, not by their order.
C21_OrderIndependent ==
    /\ \A i \in DOMAIN phaseLists :
          /\ EntrySet(phaseLists[i]) = EntriesAfter(i, Recorded)
          /\ Len(phaseLists[i]) = Cardinality(EntrySet(phaseLists[i]))
    /\ \A r \in phaseResults : r.result = ClassAtStart(r.check)
    /\ \A r, q \in phaseResults : r.check = q.check => r = q

\* Two checks of one item in two environments were recorded, one changing
\* an entry of an earlier phase and one adding an entry.
C21_Witness ==
    /\ op = "record_check"
    /\ phasePending = {}
    /\ \E r, q \in phaseResults :
          /\ r.check.item = q.check.item
          /\ r.check.env # q.check.env
          /\ r.result.kind = "Changed"
          /\ q.result.kind = "Added"

(***************************************************************************)
(* C22: the frame of add_cpp_data                                          *)
(***************************************************************************)

\* The declarations and provenances of the merges whose frame is checked:
\* a declaration with no arm in is_same, declarations of three more
\* variants, two of them of one identity with different documentation,
\* and parser and synthesized provenance.
FrameDecls ==
    { Decl("Namespace", "a", ""),
      Decl("Type", "a", ""),
      Decl("Function", "a", ""), Decl("Function", "a", "doc"),
      Decl("Function", "b", ""),
      Decl("ClassBase", "a", "") }

FrameSources ==
    { [kind |-> "CppParser", include_file |-> "a.h"],
      [kind |-> "CppParser", include_file |-> "b.h"],
      [kind |-> "ImplicitDestructor", include_file |-> ""] }

SpecFrameNext ==
    \/ \E source \in FrameSources, data \in FrameDecls : AddCppData(source, data)
    \/ Clear

\* The ledger under the merges of FrameDecls (and clear).
SpecFrame == SpecDbInit /\ [][SpecFrameNext]_vars

\* The positions of the existing items whose provenance the step changes.
SourceChanged == { k \in 1..Len(items) : items'[k].source # items[k].source }

IsSame ==
    /\ sameResult = None
    /\ sameResult' = Some([ self_other |-> is_same(sameSelf[1], sameOther[1]),
                            other_self |-> is_same(sameOther[1], sameSelf[1]),
                            self_self |-> is_same(sameSelf[1], sameSelf[1]) ])
    /\ op' = "is_same"
    /\ UNCHANGED <<sameSelf, sameOther>>
    /\ UNCHANGED <<phaseVars, procVars, dbVars, checkVars, mapVars, pureVars>>

SpecSameInit ==
    /\ DbInit
    /\ op = "init"
    /\ ProcIdle
    /\ PhaseIdle
    /\ checks = <<>> /\ argEnv = None /\ argError = None /\ addResult = None
    /\ MapIdle
    /\ PureIdle
    /\ \E a \in Decls, b \in Decls : sameSelf = Some(a) /\ sameOther = Some(b)
    /\ sameResult = None

SpecSameNext == IsSame

\* is_same on every pair of declarations of Decls.
SpecSame == SpecSameInit /\ [][SpecSameNext]_vars

\* C23: is_same holds of every declaration with itself, gives the same
\* answer both ways round, and never holds of declarations of different
\* variants.
C23_IsSameReflexiveSymmetric ==
    op = "is_same"
    => /\ sameResult[1].self_self
       /\ sameResult[1].self_other = sameResult[1].other_self
       /\ (sameSelf[1].variant # sameOther[1].variant => ~sameResult[1].self_other)

====
